---- MODULE Spec2Model ----
(***************************************************************************)
(* The OpenNebula cloud driver (salt/cloud/clouds/opennebula.py) as a      *)
(* state machine.  One invocation of an entry point runs from Invoke to    *)
(* pc = "done"; every RPC issued, every event fired and every sleep of     *)
(* the invocation is recorded, and the provider's answers are inputs.      *)
(***************************************************************************)
EXTENDS Integers, Sequences, FiniteSets, TLC

VARIABLES
    op,           \* the entry point being run
    call,         \* its call-context argument
    kwargs,       \* its keyword arguments (for create: the vm_ dict)
    pc,           \* position inside the entry point
    rpcs,         \* the XML-RPC calls issued so far, in order
    events,       \* the tags of the events fired so far, in order
    sleeps,       \* number of time.sleep(0.5) calls so far
    attempts,     \* the local `attempts` of _get_node / _get_template
    resolved,     \* the id a name was resolved to (or NoneV)
    node,         \* the record show_instance / _get_node produced
    response,     \* the provider's answer to the last mutating RPC
    result,       \* how the entry point ended: returned value or raised error
    polls,        \* create: number of readiness polls made by wait_for_ip
    reports,      \* create: the (state, lcm_state) each poll was shown
    inDestroy,    \* create: TRUE while inside the compensating destroy()
    exc,          \* create: the poll error caught at line 520
    data,         \* create: the record wait_for_ip returned
    seen,         \* per listing of the entry point's own name lookup: the id
                  \* the pool held for the name, or Absent (the lookups
                  \* nested in create are not recorded)
    listed,       \* the pool a lister just read (get_image and get_location
                  \* in create, the lister entry points, the get_*_id helpers)
    xml,          \* _xml_to_dict: the element it is given
    image_id,     \* create: kwargs['image_id']
    region_id,    \* create: kwargs['region_id']
    ssh_host,     \* create: vm_['ssh_host']
    bootstrapped  \* create: salt.utils.cloud.bootstrap was called

vars == <<op, call, kwargs, pc, rpcs, events, sleeps, attempts, resolved, node,
          response, result, seen, polls, reports, inDestroy, exc, data,
          listed, xml, image_id, region_id, ssh_host, bootstrapped>>

createVars == <<polls, reports, inDestroy, exc, data, listed, image_id,
                region_id, ssh_host, bootstrapped>>

(***************************************************************************)
(* Values                                                                  *)
(***************************************************************************)
\* Python's None
NoneV == "<None>"

\* no element
NoXml == [tag |-> NoneV, text |-> NoneV, children |-> <<>>]

\* a listing that did not hold the name looked up
Absent == "<absent>"

\* the empty dict {}
EmptyDict == [x \in {} |-> x]

\* number of polls wait_for_ip makes before its timeout (timeout / interval)
PollLimit == 3

\* `attempts = 10` of _get_node and _get_template
Attempts == 10

Names == {"n1", "n2"}
Ids == {"5", "7"}
Calls == {NoneV, "function", "action"}

\* Python truthiness of an argument value: `not x` is TRUE for None and ''
Truthy(v) == v # NoneV /\ v # ""

\* str(x): None becomes the text 'None'
Str(v) == IF v = NoneV THEN "None" ELSE v

\* int(x) succeeds on numeric text only; int(None) raises TypeError
Numeric(v) == v \in {"1", "5", "7", "-1"}

IntOf(v) ==
    CASE v = "1" -> 1
      [] v = "5" -> 5
      [] v = "7" -> 7
      [] v = "-1" -> -1

\* salt.utils.fopen(path).read(): the text of the file, kept symbolic
FileData(path) == <<"read", path>>

\* salt.utils.is_true(x), kept symbolic
IsTrue(v) == <<"is_true", v>>

\* how an invocation ended.  `at` names the statement that raised; `val` is
\* the returned value, or for an error the value it carries
Raise(e, where) == [kind |-> "raise", exc |-> e, at |-> where, val |-> NoneV]
RaiseWith(e, where, v) == [kind |-> "raise", exc |-> e, at |-> where, val |-> v]
Return(v) == [kind |-> "return", exc |-> NoneV, at |-> "value", val |-> v]
ReturnFalse == [kind |-> "return", exc |-> NoneV, at |-> "False", val |-> FALSE]
NoResult == [kind |-> "none", exc |-> NoneV, at |-> NoneV, val |-> NoneV]

\* os.path.isfile / open() succeed on this path only
FileExists(path) == path = "/file"

Rpc(m, a) == [method |-> m, args |-> a]

(***************************************************************************)
(* The entry points and the tables read off their code                     *)
(***************************************************************************)
\* entry points whose first statement is `if call != 'function': raise`
FunctionOnlyOps ==
    {"image_allocate", "image_clone", "image_delete", "image_info",
     "image_persistent", "image_update", "secgroup_allocate", "secgroup_update",
     "template_allocate", "template_update", "vm_allocate", "vn_add_ar",
     "vn_allocate", "vn_delete", "vn_free_ar", "vn_hold", "vn_info",
     "vn_release", "vn_reserve"}

\* entry points whose first statement is `if call == 'action': raise`
NotActionOps ==
    {"avail_images", "avail_locations", "list_nodes", "list_nodes_full",
     "list_nodes_select", "get_image_id", "get_secgroup_id", "get_template_id",
     "get_vm_id", "get_vn_id", "secgroup_clone", "secgroup_delete",
     "secgroup_info", "template_clone", "template_delete",
     "template_instantiate"}

\* entry points whose first statement is `if call != 'action': raise`
ActionOnlyOps == {"show_instance", "vm_action", "vm_info", "vm_monitoring"}

ListerOps == {"avail_images", "avail_locations", "list_nodes", "list_nodes_full",
              "list_nodes_select"}

HelperOps == {"get_image_id", "get_secgroup_id", "get_template_id", "get_vm_id",
              "get_vn_id"}

InfoOps == {"image_info", "secgroup_info", "vm_info", "vm_monitoring", "vn_info"}

UpdateOps == {"image_update", "secgroup_update", "template_update"}

VmOps == {"vm_action", "vm_info", "vm_monitoring"}

\* the dispatchers that return the action result record
MutatingOps ==
    {"image_allocate", "image_clone", "image_delete", "image_persistent",
     "image_update", "secgroup_allocate", "secgroup_clone", "secgroup_delete",
     "secgroup_update", "template_allocate", "template_clone", "template_delete",
     "template_instantiate", "template_update", "vm_action", "vm_allocate",
     "vn_add_ar", "vn_allocate", "vn_delete", "vn_free_ar", "vn_hold",
     "vn_release", "vn_reserve"}

DispatcherOps == MutatingOps \cup InfoOps

ApiOps == FunctionOnlyOps \cup NotActionOps \cup ActionOnlyOps \cup {"destroy"}

\* the dispatchers that read the file at kwargs['path']
FileOps ==
    {"image_allocate", "image_update", "secgroup_allocate", "secgroup_update",
     "template_allocate", "template_update", "vm_allocate", "vn_add_ar",
     "vn_allocate", "vn_hold", "vn_release", "vn_reserve"}

Params == {"name", "vm_name", "image_id", "secgroup_id", "template_id", "vn_id",
           "path", "datastore_id", "persist", "update_type", "ar_id", "hold",
           "cluster_id", "action", "image", "location", "private_key", "profile"}

NoKwargs == [p \in Params |-> NoneV]

\* the call-context check every entry point starts with
CallRejected_WrongWay(o, c) ==
    CASE o \in FunctionOnlyOps -> c = "action"
      [] o \in NotActionOps -> c = "action"
      [] o \in ActionOnlyOps -> c # "action"
      [] o = "destroy" -> c = "action"
      [] OTHER -> FALSE

CallRejected(o, c) ==
    CASE o \in FunctionOnlyOps -> c # "function"
      [] o \in NotActionOps -> c = "action"
      [] o \in ActionOnlyOps -> c # "action"
      [] o = "destroy" -> c = "function"
      [] OTHER -> FALSE

\* the class of the error the call-context check raises
CallError(o) ==
    IF o = "list_nodes" THEN "SaltCloudException" ELSE "SaltCloudSystemExit"

\* arguments tested as `not a or not b ...`: every one of them must be given
RequiredAll(o) ==
    CASE o = "image_allocate" -> {"path", "datastore_id"}
      [] o = "image_clone" -> {"name", "image_id"}
      [] o = "image_persistent" -> {"persist"}
      [] o = "image_update" -> {"image_id", "path", "update_type"}
      [] o = "secgroup_allocate" -> {"path"}
      [] o = "secgroup_clone" -> {"name", "secgroup_id"}
      [] o = "secgroup_update" -> {"secgroup_id", "path", "update_type"}
      [] o = "template_allocate" -> {"path"}
      [] o = "template_clone" -> {"name", "template_id"}
      [] o = "template_instantiate" -> {"vm_name", "template_id"}
      [] o = "template_update" -> {"template_id", "path", "update_type"}
      [] o = "vm_allocate" -> {"path"}
      [] o = "vn_allocate" -> {"path"}
      [] o = "vn_free_ar" -> {"vn_id", "ar_id"}
      [] o \in {"vn_hold", "vn_release", "vn_reserve"} -> {"vn_id", "path"}
      [] o \in {"get_image_id", "get_template_id", "get_vm_id", "get_vn_id"}
            -> {"name"}
      [] OTHER -> {}

\* arguments tested as `not a and not b`: one of them is enough
RequiredAny(o) ==
    CASE o \in {"image_delete", "image_info", "image_persistent"}
            -> {"name", "image_id"}
      [] o \in {"secgroup_delete", "secgroup_info"} -> {"name", "secgroup_id"}
      [] o = "template_delete" -> {"name", "template_id"}
      [] o \in {"vn_delete", "vn_info"} -> {"name", "vn_id"}
      [] o = "vn_add_ar" -> {"vn_id", "path"}
      [] OTHER -> {}

\* the argument validation that follows the call-context check
ArgsRejected(o, kw) ==
    \/ RequiredAny(o) # {} /\ \A p \in RequiredAny(o) : ~Truthy(kw[p])
    \/ \E p \in RequiredAll(o) : ~Truthy(kw[p])

\* update_type -> update_number (NoneV: the else branch, which raises)
UpdateNumber_Swapped(t) ==
    CASE t = "replace" -> 1
      [] t = "merge" -> 0
      [] OTHER -> -1

UpdateNumber(t) ==
    CASE t = "replace" -> 0
      [] t = "merge" -> 1
      [] OTHER -> -1

\* the <kind>_id argument of a dispatcher
IdParam(o) ==
    CASE o \in {"image_clone", "image_delete", "image_info", "image_persistent",
                "image_update"} -> "image_id"
      [] o \in {"secgroup_clone", "secgroup_delete", "secgroup_info",
                "secgroup_update"} -> "secgroup_id"
      [] o \in {"template_clone", "template_delete", "template_instantiate",
                "template_update"} -> "template_id"
      [] o \in {"vn_add_ar", "vn_delete", "vn_free_ar", "vn_hold", "vn_info",
                "vn_release", "vn_reserve"} -> "vn_id"
      [] OTHER -> "name"

\* the get_*_id helper a dispatcher resolves a name with
Helper(o) ==
    CASE o \in {"image_delete", "image_info", "image_persistent"} -> "get_image_id"
      [] o \in {"secgroup_delete", "secgroup_info"} -> "get_secgroup_id"
      [] o = "template_delete" -> "get_template_id"
      [] o = "vn_delete" -> "get_image_id"
      [] o = "vn_info" -> "get_vn_id"
      [] o \in VmOps -> "get_vm_id"
      [] o \in HelperOps -> o
      [] OTHER -> NoneV

\* the `name is None` check inside a get_*_id helper (get_secgroup_id has none)
HelperRejects(h, name) == h # "get_secgroup_id" /\ name = NoneV

\* whether the dispatcher looks the name up before its RPC
NeedsResolve(o, kw) ==
    \/ o \in VmOps \cup HelperOps
    \/ o = "template_delete" /\ Truthy(kw.name)
    \/ Helper(o) # NoneV /\ Truthy(kw.name) /\ ~Truthy(kw[IdParam(o)])

\* the pool a lister reads
PoolOf(h) ==
    CASE h \in {"get_image_id", "avail_images"} -> "image"
      [] h = "get_secgroup_id" -> "secgroup"
      [] h = "get_template_id" -> "template"
      [] h = "get_vm_id" -> "vm"
      [] h = "get_vn_id" -> "vn"
      [] h = "avail_locations" -> "host"
      [] OTHER -> "node"

\* the pool-info RPC of each lister
ListRpc(kind) ==
    CASE kind = "image" -> Rpc("one.imagepool.info", <<-1, -1, -1>>)
      [] kind = "secgroup" -> Rpc("one.secgrouppool.info", <<-1, -1, -1>>)
      [] kind = "template" -> Rpc("one.templatepool.info", <<-1, -1, -1>>)
      [] kind = "vm" -> Rpc("one.vmpool.info", <<-1, -1, -1, 3>>)
      [] kind = "vn" -> Rpc("one.vnpool.info", <<-1, -1, -1>>)
      [] kind = "host" -> Rpc("one.hostpool.info", <<>>)
      [] kind = "node" -> Rpc("one.vmpool.info", <<-1, -1, -1, -1>>)

PoolInfoMethods ==
    {"one.imagepool.info", "one.secgrouppool.info", "one.templatepool.info",
     "one.vmpool.info", "one.vnpool.info", "one.hostpool.info"}

\* only get_template_id goes through a retrying lookup (_get_template)
Retrying(h) == h = "get_template_id"

(***************************************************************************)
(* What the provider can answer                                            *)
(***************************************************************************)
\* a flattened pool element of the image, host, template, secgroup, vn pools
GenericRecs == {[name |-> n, id |-> i] : n \in Names, i \in Ids}

VmTemplate == [cpu |-> "1", memory |-> "512", template_id |-> "1",
               nic |-> [ip |-> "10.0.0.5"]]

\* a flattened VM element: state '7' is FAILED, lcm_state '3' is RUNNING; the
\* running ones come with and without a private_ips entry
VmRecsOf(n) ==
    {[name |-> n, id |-> i, state |-> s, lcm_state |-> l, template |-> VmTemplate]
        : i \in Ids, s \in {"3", "7"}, l \in {"0", "3"}}
    \cup
    {[name |-> n, id |-> i, state |-> s, lcm_state |-> l, template |-> VmTemplate,
      private_ips |-> <<"192.168.0.9">>]
        : i \in Ids, s \in {"3"}, l \in {"3"}}

VmRecs == VmRecsOf("n1") \cup {r \in VmRecsOf("n2") :
                                  r.id = "7" /\ r.state = "3" /\ r.lcm_state = "3"
                                  /\ "private_ips" \notin DOMAIN r}

\* a lister's mapping: the pool's elements keyed by their NAME
PoolsOver(recs) ==
    UNION {{f \in [S -> recs] : \A n \in S : f[n].name = n} : S \in SUBSET Names}

GenericPools == PoolsOver(GenericRecs)
VmPools == PoolsOver(VmRecs)

Pools(kind) == IF kind \in {"vm", "node"} THEN VmPools ELSE GenericPools

\* the provider's answer to a mutating call: (success flag, id, error code)
Responses == {<<f, v, c>> : f \in BOOLEAN, v \in {42, 43}, c \in {0, 2048}}

\* the provider's answer to an info call: (TRUE, element, 0) or (FALSE, text, code)
InfoResponses ==
    {<<TRUE, r, 0>> : r \in {x \in GenericRecs : x.name = "n1"}}
    \cup {<<FALSE, "error message", 2048>>}

NoResponse == <<>>

(***************************************************************************)
(* The arguments an invocation can be given                                *)
(***************************************************************************)
ExtraParams(o) ==
    CASE o = "vm_allocate" -> {"hold"}
      [] o = "vn_allocate" -> {"cluster_id"}
      [] o = "vm_action" -> {"name", "action"}
      [] o \in {"vm_info", "vm_monitoring", "destroy", "show_instance",
                "get_secgroup_id"} -> {"name"}
      [] OTHER -> {}

ParamsOf(o) == RequiredAll(o) \cup RequiredAny(o) \cup ExtraParams(o)

ParamValues(o, p) ==
    CASE p = "name" -> IF o \in {"destroy", "show_instance"}
                       THEN {"n1"} ELSE {NoneV, "n1"}
      [] p = "vm_name" -> {NoneV, "n1"}
      [] p \in {"image_id", "secgroup_id", "template_id", "vn_id"} -> {NoneV, "5"}
      [] p = "path" -> {NoneV, "/nofile", "/file"}
      [] p \in {"datastore_id", "ar_id", "cluster_id"} -> {NoneV, "1"}
      [] p = "persist" -> {NoneV, "True", "False"}
      [] p = "update_type" -> {NoneV, "replace", "merge", "append"}
      [] p = "hold" -> {NoneV, "True"}
      [] p = "action" -> {"stop", "resume"}

ArgValues == {NoneV, "n1", "5", "1", "/nofile", "/file", "True", "False",
              "replace", "merge", "append", "stop", "resume"}

KwargsFor(o) ==
    {[p \in Params |-> IF p \in ParamsOf(o) THEN f[p] ELSE NoneV] :
        f \in {g \in [ParamsOf(o) -> ArgValues] :
                  \A p \in ParamsOf(o) : g[p] \in ParamValues(o, p)}}

ApiKwargs == [o \in ApiOps |-> KwargsFor(o)]

\* the vm_ dicts create is given: every image and location with a configured
\* profile and an existing key file, and every key file and profile with the
\* image given by name and no location
CreateKwargs ==
    {vm \in {[p \in Params |->
                CASE p = "name" -> "n1"
                  [] p = "image" -> i
                  [] p = "location" -> l
                  [] p = "private_key" -> k
                  [] p = "profile" -> pr
                  [] OTHER -> NoneV] :
                i \in {"n1", "5", "nope"}, l \in {NoneV, "n2", "nohost"},
                k \in {NoneV, "/nofile", "/file"}, pr \in {"ok", "unconfigured"}} :
        \/ vm.private_key = "/file" /\ vm.profile = "ok"
        \/ vm.image = "n1" /\ vm.location = NoneV}

(***************************************************************************)
(* The RPC each dispatcher issues and the record it returns                *)
(***************************************************************************)
\* the 'action' field of the returned record
ActionName(o, kw) ==
    CASE o = "image_allocate" -> "image.allocate"
      [] o = "image_clone" -> "image.clone"
      [] o = "image_delete" -> "image.delete"
      [] o = "image_persistent" -> "image.persistent"
      [] o = "image_update" -> "image.update"
      [] o = "secgroup_allocate" -> "secgroup.allocate"
      [] o = "secgroup_clone" -> "secgroup.clone"
      [] o = "secgroup_delete" -> "secgroup.delete"
      [] o = "secgroup_update" -> "secgroup.update"
      [] o = "template_allocate" -> "template.allocate"
      [] o = "template_clone" -> "template.clone"
      [] o = "template_delete" -> "template.delete"
      [] o = "template_instantiate" -> "template.instantiate"
      [] o = "template_update" -> "template.update"
      [] o = "vm_action" -> "vm.action." \o kw.action
      [] o = "vm_allocate" -> "vm.allocate"
      [] o = "vn_add_ar" -> "vn.add_ar"
      [] o = "vn_allocate" -> "vn.allocate"
      [] o = "vn_delete" -> "vn.delete"
      [] o = "vn_free_ar" -> "vn.free_ar"
      [] o = "vn_hold" -> "vn.hold"
      [] o = "vn_release" -> "vn.release"
      [] o = "vn_reserve" -> "vn.reserve"
      [] o = "destroy" -> "vm.delete"

\* the remote procedure the dispatcher calls on `server`
RpcMethod(o) ==
    CASE o = "vn_delete" -> "one.image.delete"
      [] o = "vm_action" -> "one.vm.action"
      [] o = "image_info" -> "one.image.info"
      [] o = "secgroup_info" -> "one.secgroup.info"
      [] o = "vm_info" -> "one.vm.info"
      [] o = "vm_monitoring" -> "one.vm.monitoring"
      [] o = "vn_info" -> "one.vn.info"
      [] OTHER -> "one." \o ActionName(o, NoKwargs)

\* the key of the record that holds response[0]
FlagField(o) ==
    CASE o \in {"image_allocate", "secgroup_allocate", "template_allocate",
                "vm_allocate", "vn_allocate"} -> "allocated"
      [] o \in {"image_clone", "secgroup_clone", "template_clone"} -> "cloned"
      [] o \in {"image_delete", "secgroup_delete", "template_delete", "vn_delete",
                "destroy"} -> "deleted"
      [] o \in {"image_update", "secgroup_update", "template_update"} -> "updated"
      [] o = "image_persistent" -> "response"
      [] o = "template_instantiate" -> "instantiated"
      [] o = "vm_action" -> "actioned"
      [] o = "vn_add_ar" -> "address_range_added"
      [] o = "vn_free_ar" -> "ar_freed"
      [] o = "vn_hold" -> "held"
      [] o = "vn_release" -> "released"
      [] o = "vn_reserve" -> "reserved"

\* the key of the record that holds response[1]
IdField(o) ==
    CASE o \in {"image_allocate", "image_delete", "image_persistent",
                "image_update"} -> "image_id"
      [] o = "image_clone" -> "cloned_image_id"
      [] o \in {"secgroup_allocate", "secgroup_delete", "secgroup_update"}
            -> "secgroup_id"
      [] o = "secgroup_clone" -> "cloned_secgroup_id"
      [] o \in {"template_allocate", "template_delete", "template_update"}
            -> "template_id"
      [] o = "template_clone" -> "cloned_template_id"
      [] o = "template_instantiate" -> "instantiated_vm_id"
      [] o \in {"vm_action", "vm_allocate"} -> "vm_id"
      [] o \in {"vn_allocate", "vn_delete"} -> "vn_id"
      [] o \in {"vn_add_ar", "vn_free_ar", "vn_hold", "vn_release", "vn_reserve"}
            -> "resource_id"
      [] o = "destroy" -> "node_id"

\* the key, if any, under which the record repeats the given name
NameField_None(o) == NoneV

NameField(o) ==
    CASE o = "image_clone" -> "cloned_image_name"
      [] o = "secgroup_clone" -> "cloned_secgroup_name"
      [] o = "template_clone" -> "cloned_template_name"
      [] o = "template_instantiate" -> "vm_name"
      [] OTHER -> NoneV

GivenName(o, kw) == IF o = "template_instantiate" THEN kw.vm_name ELSE kw.name

\* the record built from the provider's response tuple
ActionResult_Shifted(o, resp, kw) ==
    [f \in {"action", FlagField(o), IdField(o), "error_code"}
           \cup ({NameField(o)} \ {NoneV}) |->
        CASE f = "action" -> ActionName(o, kw)
          [] f = FlagField(o) -> resp[1]
          [] f = IdField(o) -> resp[3]
          [] f = "error_code" -> resp[2]
          [] OTHER -> GivenName(o, kw)]

ActionResult(o, resp, kw) ==
    [f \in {"action", FlagField(o), IdField(o), "error_code"}
           \cup ({NameField(o)} \ {NoneV}) |->
        CASE f = "action" -> ActionName(o, kw)
          [] f = FlagField(o) -> resp[1]
          [] f = IdField(o) -> resp[2]
          [] f = "error_code" -> resp[3]
          [] OTHER -> GivenName(o, kw)]

\* the values a dispatcher passes through int() while building its RPC
IntInputs(o, kw, id) ==
    CASE o = "image_allocate" -> {kw.datastore_id}
      [] o = "vn_allocate" ->
            {IF kw.cluster_id = NoneV THEN "-1" ELSE kw.cluster_id}
      [] o = "vn_free_ar" -> {id, kw.ar_id}
      [] o \in {"secgroup_allocate", "template_allocate", "vm_allocate"} -> {}
      [] OTHER -> {id}

\* the arguments of the RPC, after `auth`
RpcArgs(o, kw, id) ==
    CASE o = "image_allocate" -> <<FileData(kw.path), IntOf(kw.datastore_id)>>
      [] o \in {"image_clone", "secgroup_clone", "template_clone"}
            -> <<IntOf(id), kw.name>>
      [] o = "image_persistent" -> <<IntOf(id), IsTrue(kw.persist)>>
      [] o \in UpdateOps
            -> <<IntOf(id), FileData(kw.path), UpdateNumber(kw.update_type)>>
      [] o \in {"secgroup_allocate", "template_allocate"} -> <<FileData(kw.path)>>
      [] o = "template_instantiate" -> <<IntOf(id), kw.vm_name>>
      [] o = "vm_action" -> <<kw.action, IntOf(id)>>
      [] o = "vm_allocate" -> <<FileData(kw.path), IsTrue(kw.hold)>>
      [] o = "vn_allocate" ->
            <<FileData(kw.path),
              IntOf(IF kw.cluster_id = NoneV THEN "-1" ELSE kw.cluster_id)>>
      [] o = "vn_free_ar" -> <<IntOf(id), IntOf(kw.ar_id)>>
      [] o \in {"vn_add_ar", "vn_hold", "vn_release", "vn_reserve"}
            -> <<IntOf(id), FileData(kw.path)>>
      [] OTHER -> <<IntOf(id)>>

\* what an info dispatcher makes of the provider's answer
InfoResult(o, resp) ==
    CASE o \in {"image_info", "secgroup_info"} ->
            IF resp[1] THEN Return(resp[2].name :> resp[2])
            ELSE Raise("XMLSyntaxError", "parse")
      [] o \in {"vm_info", "vn_info"} ->
            IF resp[1] = FALSE THEN Return(resp[2])
            ELSE Return(resp[2].name :> resp[2])
      [] o = "vm_monitoring" ->
            IF resp[1] = FALSE THEN Return(EmptyDict)
            ELSE Return(resp[2].id :> resp[2])

\* _list_nodes(full=False): the summary of one VM element
NodeSummary(r) ==
    [id |-> r.id, image |-> r.template.template_id, name |-> r.name,
     size |-> [cpu |-> r.template.cpu, memory |-> r.template.memory],
     state |-> r.state, private_ips |-> <<r.template.nic.ip>>,
     public_ips |-> <<>>]

\* what a lister entry point returns for the pool it read
ListerResult_EmptyIsError(o, pool) ==
    IF DOMAIN pool = {} THEN Raise("SaltCloudNotFound", "list")
    ELSE CASE o = "list_nodes" ->
                  Return([n \in DOMAIN pool |-> NodeSummary(pool[n])])
           [] o = "list_nodes_select" -> Return(<<"list_nodes_select", pool>>)
           [] OTHER -> Return(pool)

ListerResult(o, pool) ==
    CASE o = "list_nodes" -> Return([n \in DOMAIN pool |-> NodeSummary(pool[n])])
      [] o = "list_nodes_select" -> Return(<<"list_nodes_select", pool>>)
      [] OTHER -> Return(pool)

\* destroy's RPC: vm.action 'delete' on the resolved record's id
DestroyRpc_FixedId(rec) == Rpc("one.vm.action", <<"delete", IntOf("1")>>)

DestroyRpc(rec) == Rpc("one.vm.action", <<"delete", IntOf(rec.id)>>)

(***************************************************************************)
(* Initial state and the start of an invocation                            *)
(***************************************************************************)
\* the state before any invocation, whatever _xml_to_dict is to be given
Fresh ==
    /\ op = NoneV /\ call = NoneV /\ kwargs = NoKwargs /\ pc = "idle"
    /\ rpcs = <<>> /\ events = <<>> /\ sleeps = 0 /\ attempts = Attempts
    /\ resolved = NoneV /\ node = EmptyDict /\ response = NoResponse
    /\ result = NoResult /\ seen = <<>>
    /\ polls = 0 /\ reports = <<>> /\ inDestroy = FALSE /\ exc = NoneV
    /\ data = EmptyDict /\ listed = EmptyDict
    /\ image_id = NoneV /\ region_id = NoneV /\ ssh_host = NoneV
    /\ bootstrapped = FALSE

Init == Fresh /\ xml = NoXml

\* the host calls entry point o.  The module keeps no state between two
\* invocations, so one invocation from the fresh state stands for all
Invoke(o, c, kw) ==
    /\ pc = "idle"
    /\ op' = o /\ call' = c /\ kwargs' = kw /\ pc' = "entry"
    /\ rpcs' = <<>> /\ events' = <<>> /\ sleeps' = 0 /\ attempts' = Attempts
    /\ resolved' = NoneV /\ node' = EmptyDict /\ response' = NoResponse
    /\ result' = NoResult /\ seen' = <<>>
    /\ polls' = 0 /\ reports' = <<>> /\ inDestroy' = FALSE /\ exc' = NoneV
    /\ data' = EmptyDict /\ listed' = EmptyDict
    /\ image_id' = NoneV /\ region_id' = NoneV /\ ssh_host' = NoneV
    /\ bootstrapped' = FALSE
    /\ UNCHANGED xml

InvokeApi == \E o \in ApiOps, c \in Calls : \E kw \in ApiKwargs[o] : Invoke(o, c, kw)

InvokeCreate == \E vm \in CreateKwargs : Invoke("create", NoneV, vm)

(***************************************************************************)
(* The entry points other than create                                      *)
(***************************************************************************)
\* the checks an entry point makes before anything else: NoResult when passed
EntryOutcome(o, c, kw) ==
    IF CallRejected(o, c) THEN Raise(CallError(o), "call")
    ELSE IF ArgsRejected(o, kw) THEN Raise("SaltCloudSystemExit", "args")
    ELSE IF o \in UpdateOps /\ UpdateNumber(kw.update_type) = -1
         THEN Raise("SaltCloudSystemExit", "update_type")
    ELSE NoResult

\* where the entry point goes once its checks passed
AfterEntry(o, kw) ==
    CASE o \in ListerOps -> "list"
      [] o \in {"show_instance", "destroy"} -> "node_lookup"
      [] o \in FileOps -> "file"
      [] NeedsResolve(o, kw) -> "resolve"
      [] OTHER -> "rpc"

Entry ==
    /\ pc = "entry" /\ op \in ApiOps
    /\ LET r == EntryOutcome(op, call, kwargs) IN
        /\ result' = r
        /\ pc' = IF r.kind = "none" THEN AfterEntry(op, kwargs) ELSE "done"
        /\ events' = IF r.kind = "none" /\ op = "destroy"
                     THEN Append(events, "destroying instance") ELSE events
    /\ UNCHANGED <<op, call, kwargs, rpcs, sleeps, attempts, resolved, node,
                   response, createVars, seen, xml>>

\* salt.utils.fopen(path, mode='r').read()
ReadFile ==
    /\ pc = "file"
    /\ result' = IF kwargs.path = NoneV THEN Raise("TypeError", "file")
                 ELSE IF ~FileExists(kwargs.path) THEN Raise("IOError", "file")
                 ELSE result
    /\ pc' = IF FileExists(kwargs.path) THEN "rpc" ELSE "done"
    /\ UNCHANGED <<op, call, kwargs, rpcs, events, sleeps, attempts, resolved,
                   node, response, createVars, seen, xml>>

\* a lister entry point: one pool-info RPC, the elements keyed by name
List ==
    /\ pc = "list"
    /\ \E pool \in Pools(PoolOf(op)) :
        /\ rpcs' = Append(rpcs, ListRpc(PoolOf(op)))
        /\ listed' = pool
        /\ result' = ListerResult(op, pool)
    /\ pc' = "done"
    /\ UNCHANGED <<op, call, kwargs, events, sleeps, attempts, resolved, node,
                   response, seen, xml, polls, reports, inDestroy, exc, data,
                   image_id, region_id, ssh_host, bootstrapped>>

\* what a found record leads to: the helper's own return, the collision check
\* of template_delete, or the dispatcher's RPC
ResolveFound_ReturnsName(o, kw, id) ==
    IF o \in HelperOps THEN Return(kw.name)
    ELSE IF o = "template_delete" /\ Truthy(kw.template_id) /\ id # kw.template_id
         THEN Raise("SaltCloudException", "collision")
    ELSE NoResult

ResolveFound_NoCollisionCheck(o, kw, id) ==
    IF o \in HelperOps THEN Return(id) ELSE NoResult

ResolveFound(o, kw, id) ==
    IF o \in HelperOps THEN Return(id)
    ELSE IF o = "template_delete" /\ Truthy(kw.template_id) /\ id # kw.template_id
         THEN Raise("SaltCloudException", "collision")
    ELSE NoResult

\* the `except KeyError` branch of the retry loops of _get_node and
\* _get_template: `attempts -= 1`, then time.sleep(0.5), whatever is left
Missed_NoSleepAtTheEnd(att, sl) ==
    [attempts |-> att - 1, sleeps |-> IF att = 0 THEN sl ELSE sl + 1]

Missed(att, sl) == [attempts |-> att - 1, sleeps |-> sl + 1]

\* one listing of a get_*_id helper (or of _get_template)
Resolve ==
    /\ pc = "resolve" /\ attempts >= 0
    /\ LET h == Helper(op)
           kind == PoolOf(h) IN
        IF HelperRejects(h, kwargs.name)
        THEN /\ result' = Raise("SaltCloudSystemExit", "args")
             /\ pc' = "done"
             /\ UNCHANGED <<rpcs, attempts, sleeps, resolved, seen, listed>>
        ELSE \E pool \in Pools(kind) :
             /\ rpcs' = Append(rpcs, ListRpc(kind))
             /\ listed' = pool
             /\ seen' = Append(seen, IF kwargs.name \in DOMAIN pool
                                     THEN pool[kwargs.name].id ELSE Absent)
             /\ IF kwargs.name \in DOMAIN pool
                THEN LET id == pool[kwargs.name].id
                         r == ResolveFound(op, kwargs, id) IN
                     /\ result' = r
                     /\ pc' = IF r.kind = "none" THEN "rpc" ELSE "done"
                     /\ resolved' = IF Truthy(kwargs[IdParam(op)]) /\ op \notin VmOps \cup HelperOps
                                    THEN resolved ELSE id
                     /\ UNCHANGED <<attempts, sleeps>>
                ELSE IF Retrying(h)
                THEN /\ attempts' = Missed(attempts, sleeps).attempts
                     /\ sleeps' = Missed(attempts, sleeps).sleeps
                     /\ UNCHANGED <<result, pc, resolved>>
                ELSE /\ result' = Raise("KeyError", "lookup")
                     /\ pc' = "done"
                     /\ UNCHANGED <<attempts, sleeps, resolved>>
    /\ UNCHANGED <<op, call, kwargs, events, node, response, xml, polls,
                   reports, inDestroy, exc, data, image_id, region_id,
                   ssh_host, bootstrapped>>

\* _get_template ran out of attempts and returned {}: {}['id'] raises
ResolveExhausted ==
    /\ pc = "resolve" /\ attempts < 0
    /\ result' = Raise("KeyError", "id")
    /\ pc' = "done"
    /\ UNCHANGED <<op, call, kwargs, rpcs, events, sleeps, attempts, resolved,
                   node, response, createVars, seen, xml>>

\* the dispatcher's own RPC and the record made of the answer
CallRpc ==
    /\ pc = "rpc" /\ op \in DispatcherOps
    /\ LET id == IF resolved # NoneV THEN resolved ELSE kwargs[IdParam(op)] IN
        IF \E v \in IntInputs(op, kwargs, id) : ~Numeric(v)
        THEN /\ result' = Raise("TypeError", "int")
             /\ UNCHANGED <<rpcs, response>>
        ELSE \E resp \in (IF op \in InfoOps THEN InfoResponses ELSE Responses) :
             /\ rpcs' = Append(rpcs, Rpc(RpcMethod(op), RpcArgs(op, kwargs, id)))
             /\ response' = resp
             /\ result' = IF op \in InfoOps THEN InfoResult(op, resp)
                          ELSE Return(ActionResult(op, resp, kwargs))
    /\ pc' = "done"
    /\ UNCHANGED <<op, call, kwargs, events, sleeps, attempts, resolved, node,
                   createVars, seen, xml>>

(***************************************************************************)
(* show_instance / _get_node, shared by show_instance, destroy and create  *)
(***************************************************************************)
\* one pass of _get_node's loop: list_nodes_full()[name].  `attempts` is a
\* local of _get_node: it is back at its initial value once _get_node returned
NodeLookup ==
    /\ pc = "node_lookup" /\ attempts >= 0
    /\ \E pool \in VmPools :
        /\ rpcs' = Append(rpcs, ListRpc("node"))
        /\ seen' = IF op = "create" THEN seen
                   ELSE Append(seen, IF kwargs.name \in DOMAIN pool
                                     THEN pool[kwargs.name].id ELSE Absent)
        /\ IF kwargs.name \in DOMAIN pool
           THEN /\ node' = pool[kwargs.name]
                /\ pc' = "node_ready"
                /\ attempts' = Attempts
                /\ UNCHANGED sleeps
           ELSE /\ attempts' = Missed(attempts, sleeps).attempts
                /\ sleeps' = Missed(attempts, sleeps).sleeps
                /\ UNCHANGED <<node, pc>>
    /\ UNCHANGED <<op, call, kwargs, events, resolved, response, result,
                   createVars, xml>>

\* the loop ended: _get_node returns {}
NodeLookupExhausted ==
    /\ pc = "node_lookup" /\ attempts < 0
    /\ node' = EmptyDict
    /\ pc' = "node_ready"
    /\ attempts' = Attempts
    /\ UNCHANGED <<op, call, kwargs, rpcs, events, sleeps, resolved, response,
                   result, createVars, seen, xml>>

ShowInstanceReturn ==
    /\ pc = "node_ready" /\ op = "show_instance"
    /\ result' = Return(node)
    /\ pc' = "done"
    /\ UNCHANGED <<op, call, kwargs, rpcs, events, sleeps, attempts, resolved,
                   node, response, createVars, seen, xml>>

\* the error create's `finally` raises after its compensating destroy
PollError(e) == RaiseWith("SaltCloudSystemExit", "poll", Str(e))

\* how the compensating destroy of create can end: it returned its record,
\* raised the usage error of its call check, raised KeyError on the empty
\* record of an unresolved name, or its delete RPC raised
DestroyOutcomes == {"returned", "SaltCloudSystemExit", "KeyError", "Fault"}

RollbackResult_Propagates(e, outcome) ==
    IF outcome \in {"KeyError", "Fault"} THEN Raise(outcome, "id")
    ELSE PollError(e)

\* create's handler of the poll error: `try: destroy(..)`, `except
\* SaltCloudSystemExit: pass`, `finally: raise SaltCloudSystemExit(str(exc))`:
\* the raise in `finally` replaces any exception still in flight
RollbackResult(e, outcome) == PollError(e)

\* the event destroy fires once the delete RPC has returned: the answer is
\* not looked at before
Destroyed_OnSuccessOnly(evts, resp) ==
    IF resp[1] THEN Append(evts, "destroyed instance") ELSE evts

Destroyed(evts, resp) == Append(evts, "destroyed instance")

\* destroy after show_instance: data['id'], the delete RPC, the second event.
\* Called from create, its returned record is dropped and the `finally` of
\* create raises the poll error whatever destroy did
DestroyDelete ==
    /\ pc = "node_ready"
    /\ op = "destroy" \/ (op = "create" /\ inDestroy)
    /\ IF DOMAIN node = {}
       THEN /\ result' = IF op = "create" THEN RollbackResult(exc, "KeyError")
                         ELSE Raise("KeyError", "id")
            /\ UNCHANGED <<rpcs, events, response>>
       ELSE \E resp \in Responses,
               raised \in IF op = "create" THEN BOOLEAN ELSE {FALSE} :
            /\ rpcs' = Append(rpcs, DestroyRpc(node))
            /\ response' = IF op = "create" THEN response ELSE resp
            /\ events' = IF raised THEN events
                         ELSE Destroyed(events, resp)
            /\ result' = IF op = "create"
                         THEN RollbackResult(exc, IF raised THEN "Fault"
                                                  ELSE "returned")
                         ELSE Return(ActionResult("destroy", resp, kwargs))
    /\ pc' = "done"
    /\ UNCHANGED <<op, call, kwargs, sleeps, attempts, resolved, node, polls,
                   reports, inDestroy, exc, data, image_id, region_id,
                   ssh_host, bootstrapped, listed, seen, xml>>

(***************************************************************************)
(* create                                                                  *)
(***************************************************************************)
\* get_image: `vm_image in (images[image]['name'], images[image]['id'])`
ImageMatches_NameOnly(ref, rec) == ref = rec.name

ImageMatches(ref, rec) == ref \in {rec.name, rec.id}

\* get_location: `vm_location in (locations[..]['name'], locations[..]['id'])`
LocationMatches(ref, rec) == ref \in {rec.name, rec.id}

\* the last argument of the instantiate RPC
Region_Always(rid) == "SCHED_REQUIREMENTS=\"ID=" \o rid \o "\""

Region(rid) ==
    IF rid = NoneV THEN "" ELSE "SCHED_REQUIREMENTS=\"ID=" \o rid \o "\""

\* create's instantiate RPC
InstantiateRpc(img, name, rid) ==
    Rpc("one.template.instantiate", <<IntOf(img), name, FALSE, Region(rid)>>)

\* where create goes after the instantiate call: `except Exception: return False`
\* the call's value is not bound to any name, so its success flag is not read
AfterInstantiate_NoExcept(raised, resp) == "c_poll"

AfterInstantiate_ChecksFlag(raised, resp) ==
    IF raised \/ ~resp[1] THEN "done" ELSE "c_poll"

AfterInstantiate(raised, resp) == IF raised THEN "done" ELSE "c_poll"

\* __query_node_data: False, the record ("ready"), or nothing ("None")
QueryNodeData_LcmFirst(rec) ==
    IF DOMAIN rec = {} THEN "False"
    ELSE IF rec.lcm_state = "3" THEN "ready"
    ELSE IF rec.state = "7" THEN "False"
    ELSE "None"

QueryNodeData_NoRunning(rec) ==
    IF DOMAIN rec = {} THEN "False"
    ELSE IF rec.state = "7" THEN "False"
    ELSE "None"

QueryNodeData(rec) ==
    IF DOMAIN rec = {} THEN "False"
    ELSE IF rec.state = "7" THEN "False"
    ELSE IF rec.lcm_state = "3" THEN "ready"
    ELSE "None"

\* salt.utils.cloud.wait_for_ip on the callback's answer at poll number n:
\* a record ends the poll, False is a failure, nothing means poll again
\* until the timeout
WaitForIp(answer, n) ==
    CASE answer = "ready" -> "ready"
      [] answer = "False" -> "SaltCloudExecutionFailure"
      [] answer = "None" /\ n < PollLimit -> "again"
      [] OTHER -> "SaltCloudExecutionTimeout"

\* `key_filename is not None and not os.path.isfile(key_filename)`
KeyFileMissing_Unchecked(key) == FALSE

KeyFileMissing(key) == key # NoneV /\ ~FileExists(key)

\* data['private_ips'][0], on KeyError data['template']['nic']['ip']
PrivateIp(rec) ==
    IF "private_ips" \in DOMAIN rec THEN rec.private_ips[1]
    ELSE rec.template.nic.ip

\* the record create returns
CreateResult_ImageFromRecord(vm, rec, ip) ==
    [id |-> rec.id, image |-> rec.template.template_id, name |-> vm.name,
     size |-> rec.template.memory, state |-> rec.state, private_ips |-> ip,
     public_ips |-> <<>>]

CreateResult(vm, rec, ip) ==
    [id |-> rec.id, image |-> vm.image, name |-> vm.name,
     size |-> rec.template.memory, state |-> rec.state, private_ips |-> ip,
     public_ips |-> <<>>]

\* the profile check, the driver alias and the 'starting create' event
CreateStart ==
    /\ pc = "entry" /\ op = "create"
    /\ IF kwargs.profile = "unconfigured"
       THEN /\ result' = ReturnFalse
            /\ pc' = "done"
            /\ UNCHANGED events
       ELSE /\ events' = Append(events, "starting create")
            /\ pc' = "c_image"
            /\ UNCHANGED result
    /\ UNCHANGED <<op, call, kwargs, rpcs, sleeps, attempts, resolved, node,
                   response, createVars, seen, xml>>

\* kwargs['image_id'] = get_image(vm_)
CreateGetImage ==
    /\ pc = "c_image"
    /\ \E pool \in GenericPools :
        LET found == {n \in DOMAIN pool : ImageMatches(Str(kwargs.image), pool[n])} IN
        /\ listed' = pool
        /\ rpcs' = Append(rpcs, ListRpc("image"))
        /\ IF found = {}
           THEN /\ result' = Raise("SaltCloudNotFound", "image")
                /\ pc' = "done"
                /\ UNCHANGED image_id
           ELSE /\ \E n \in found : image_id' = pool[n].id
                /\ pc' = "c_location"
                /\ UNCHANGED result
    /\ UNCHANGED <<op, call, kwargs, events, sleeps, attempts, resolved, node,
                   response, polls, reports, inDestroy, exc, data, region_id,
                   ssh_host, bootstrapped, seen, xml>>

\* kwargs['region_id'] = get_location(vm_), then the 'requesting instance' event
CreateGetLocation ==
    /\ pc = "c_location"
    /\ \E pool \in GenericPools :
        LET found == {n \in DOMAIN pool :
                         LocationMatches(Str(kwargs.location), pool[n])} IN
        /\ listed' = pool
        /\ rpcs' = Append(rpcs, ListRpc("host"))
        /\ IF Str(kwargs.location) = "None"
           THEN /\ region_id' = NoneV
                /\ events' = Append(events, "requesting instance")
                /\ pc' = "c_instantiate"
                /\ UNCHANGED result
           ELSE IF found = {}
           THEN /\ result' = Raise("SaltCloudNotFound", "location")
                /\ pc' = "done"
                /\ UNCHANGED <<region_id, events>>
           ELSE /\ \E n \in found : region_id' = pool[n].id
                /\ events' = Append(events, "requesting instance")
                /\ pc' = "c_instantiate"
                /\ UNCHANGED result
    /\ UNCHANGED <<op, call, kwargs, sleeps, attempts, resolved, node,
                   response, polls, reports, inDestroy, exc, data, image_id,
                   ssh_host, bootstrapped, seen, xml>>

\* server.one.template.instantiate(...) inside try / except Exception
CreateInstantiate ==
    /\ pc = "c_instantiate"
    /\ rpcs' = Append(rpcs, InstantiateRpc(image_id, kwargs.name, region_id))
    /\ listed' = EmptyDict
    /\ \E raised \in BOOLEAN, resp \in Responses :
        /\ exc' = IF raised THEN "instantiate raised" ELSE exc
        /\ response' = IF raised THEN NoResponse ELSE resp
        /\ pc' = AfterInstantiate(raised, resp)
        /\ result' = IF AfterInstantiate(raised, resp) = "done" THEN ReturnFalse
                     ELSE result
    /\ UNCHANGED <<op, call, kwargs, events, sleeps, attempts, resolved, node,
                   polls, reports, inDestroy, data, image_id,
                   region_id, ssh_host, bootstrapped, seen, xml>>

\* one round of wait_for_ip: it calls __query_node_data -> show_instance.
\* The answer of instantiate was an unbound value: nothing holds it any more
PollBegin ==
    /\ pc = "c_poll"
    /\ polls' = polls + 1
    /\ attempts' = Attempts
    /\ response' = NoResponse
    /\ pc' = "node_lookup"
    /\ UNCHANGED <<op, call, kwargs, rpcs, events, sleeps, resolved, node,
                   result, reports, inDestroy, exc, data, image_id,
                   region_id, ssh_host, bootstrapped, listed, seen, xml>>

\* what a poll was shown: the record's state and lcm_state ("" for {})
Report(rec) ==
    IF DOMAIN rec = {} THEN [state |-> "", lcm_state |-> ""]
    ELSE [state |-> rec.state, lcm_state |-> rec.lcm_state]

\* __query_node_data's answer and what wait_for_ip does with it
PollClassify ==
    /\ pc = "node_ready" /\ op = "create" /\ ~inDestroy
    /\ LET w == WaitForIp(QueryNodeData(node), polls) IN
        /\ data' = IF w = "ready" THEN node ELSE data
        /\ exc' = IF w \in {"ready", "again"} THEN exc ELSE w
        /\ pc' = CASE w = "ready" -> "c_key"
                   [] w = "again" -> "c_poll"
                   [] OTHER -> "c_rollback"
    /\ reports' = Append(reports, Report(node))
    /\ node' = EmptyDict /\ UNCHANGED seen
    /\ UNCHANGED <<op, call, kwargs, rpcs, events, sleeps, attempts, resolved,
                   response, result, polls, inDestroy, image_id, region_id,
                   ssh_host, bootstrapped, listed, xml>>

\* the except branch: destroy(vm_['name']) with call=None, up to its lookup
CreateRollback ==
    /\ pc = "c_rollback"
    /\ inDestroy' = TRUE
    /\ IF CallRejected("destroy", NoneV)
       THEN /\ result' = RollbackResult(exc, "SaltCloudSystemExit")
            /\ pc' = "done"
            /\ UNCHANGED <<events, attempts>>
       ELSE /\ events' = Append(events, "destroying instance")
            /\ attempts' = Attempts
            /\ pc' = "node_lookup"
            /\ UNCHANGED result
    /\ UNCHANGED <<op, call, kwargs, rpcs, sleeps, resolved, node, response,
                   polls, reports, exc, data, image_id, region_id, ssh_host,
                   bootstrapped, listed, seen, xml>>

\* where create goes after the private_key check: the raise of
\* SaltCloudConfigError is outside every try block, so it ends the run
AfterKeyCheck_RollsBack(missing) == IF missing THEN "c_rollback" ELSE "c_bootstrap"

AfterKeyCheck(missing) == IF missing THEN "done" ELSE "c_bootstrap"

\* the private_key check and the choice of the address
CreateKeyCheck ==
    /\ pc = "c_key"
    /\ IF KeyFileMissing(kwargs.private_key)
       THEN /\ result' = Raise("SaltCloudConfigError", "private_key")
            /\ pc' = AfterKeyCheck(TRUE)
            /\ UNCHANGED ssh_host
       ELSE /\ ssh_host' = PrivateIp(data)
            /\ pc' = AfterKeyCheck(FALSE)
            /\ UNCHANGED result
    /\ UNCHANGED <<op, call, kwargs, rpcs, events, sleeps, attempts, resolved,
                   node, response, polls, reports, inDestroy, exc, data,
                   image_id, region_id, bootstrapped, listed, seen, xml>>

\* salt.utils.cloud.bootstrap, the returned record, the 'created instance' event
CreateBootstrap ==
    /\ pc = "c_bootstrap"
    /\ bootstrapped' = TRUE
    /\ result' = Return(CreateResult(kwargs, data, ssh_host))
    /\ events' = Append(events, "created instance")
    /\ pc' = "done"
    /\ UNCHANGED <<op, call, kwargs, rpcs, sleeps, attempts, resolved, node,
                   response, polls, reports, inDestroy, exc, data, image_id,
                   region_id, ssh_host, listed, seen, xml>>

(***************************************************************************)
(* _xml_to_dict                                                            *)
(***************************************************************************)
\* the most children an element is given
MaxSiblings == 3

\* tag names as the markup spells them; they are case sensitive, and "NIC1"
\* lower-cased is what a second "NIC" sibling is keyed by
Tags == {"NIC", "nic", "NIC1", "IP", "ID"}

\* item.tag.lower()
Lower(t) ==
    CASE t = "NIC" -> "nic"
      [] t = "NIC1" -> "nic1"
      [] t = "IP" -> "ip"
      [] t = "ID" -> "id"
      [] t = "VM" -> "vm"
      [] OTHER -> t

\* an element: its tag, its text (NoneV when it has none), its children
Element(t, x, c) == [tag |-> t, text |-> x, children |-> c]

\* the children given to the element that is flattened
Kids ==
    {Element(t, x, <<>>) : t \in Tags, x \in {"a", "b"}}
    \cup {Element("IP", NoneV, <<>>),
          Element("NIC", NoneV, <<Element("IP", "a", <<>>),
                                  Element("IP", "b", <<>>)>>),
          Element("nic", "a", <<Element("IP", "b", <<>>)>>)}

XmlTrees ==
    {Element("VM", NoneV, c) :
        c \in UNION {[1..n -> Kids] : n \in 0..MaxSiblings}}

RECURSIVE FreeKey(_, _, _)
RECURSIVE XmlFold(_, _, _)
RECURSIVE XmlToDict(_)

\* `while key in dicts: key += str(idx); idx += 1`
FreeKey_AlwaysSuffix(key, idx, dicts) == key \o ToString(idx)

FreeKey_TestedOnce(key, idx, dicts) ==
    IF key \in DOMAIN dicts THEN key \o ToString(idx) ELSE key

FreeKey(key, idx, dicts) ==
    IF key \in DOMAIN dicts THEN FreeKey(key \o ToString(idx), idx + 1, dicts)
    ELSE key

\* the body of `for item in xml`, from the i-th child on
XmlFold(items, i, dicts) ==
    IF i > Len(items) THEN dicts
    ELSE LET item == items[i]
             key == FreeKey(Lower(item.tag), 1, dicts)
             val == IF item.text = NoneV THEN XmlToDict(item) ELSE item.text
         IN XmlFold(items, i + 1, (key :> val) @@ dicts)

XmlToDict(e) == XmlFold(e.children, 1, EmptyDict)

\* _xml_to_dict(xml) is called and returns
Flatten ==
    /\ pc = "idle"
    /\ op' = "_xml_to_dict"
    /\ result' = Return(XmlToDict(xml))
    /\ pc' = "done"
    /\ UNCHANGED <<call, kwargs, rpcs, events, sleeps, attempts, resolved,
                   node, response, seen, polls, reports, inDestroy, exc, data,
                   listed, xml, image_id, region_id, ssh_host, bootstrapped>>

(***************************************************************************)
(* Specifications                                                          *)
(***************************************************************************)
\* every entry point but create
Next ==
    \/ InvokeApi
    \/ Entry
    \/ ReadFile
    \/ List
    \/ Resolve
    \/ ResolveExhausted
    \/ CallRpc
    \/ NodeLookup
    \/ NodeLookupExhausted
    \/ ShowInstanceReturn
    \/ DestroyDelete

Spec == Init /\ [][Next]_vars

\* create, with the destroy it calls
NextCreate ==
    \/ InvokeCreate
    \/ CreateStart
    \/ CreateGetImage
    \/ CreateGetLocation
    \/ CreateInstantiate
    \/ PollBegin
    \/ NodeLookup
    \/ NodeLookupExhausted
    \/ PollClassify
    \/ CreateRollback
    \/ DestroyDelete
    \/ CreateKeyCheck
    \/ CreateBootstrap

SpecCreate == Init /\ [][NextCreate]_vars

\* _xml_to_dict on every element of XmlTrees
InitXml == Fresh /\ xml \in XmlTrees

NextXml == Flatten

SpecXml == InitXml /\ [][NextXml]_vars

(***************************************************************************)
(* Properties of create (checked under SpecCreate)                         *)
(***************************************************************************)
\* the positions in the log of the 'delete' vm.action RPCs
DeleteRpcs ==
    {i \in 1..Len(rpcs) :
        rpcs[i].method = "one.vm.action" /\ rpcs[i].args[1] = "delete"}

\* the positions in the log of the template.instantiate RPCs
InstantiateRpcs ==
    {i \in 1..Len(rpcs) : rpcs[i].method = "one.template.instantiate"}

\* the record shown at a poll is running: lcm_state '3' and state not '7'
Running(rep) == rep.lcm_state = "3" /\ rep.state # "7"

\* the provider first shows the VM running on the third poll
RunningAtThirdPoll ==
    /\ op = "create" /\ Len(reports) = 3
    /\ Running(reports[3])
    /\ \A i \in 1..2 : ~Running(reports[i])

\* the configured private_key names a file that does not exist
KeyMissing ==
    /\ op = "create"
    /\ kwargs.private_key # NoneV /\ kwargs.private_key # "/file"

\* C1: when the provider first shows the VM running (lcm_state '3', state not
\* '7') on the third poll, create issues no delete RPC at any point of the run,
\* never enters its compensating destroy, and (the private_key check passing)
\* ends by returning a record that carries the id the provider assigned and
\* the resolved private address: private_ips[0] of the record of the third
\* poll, or its template.nic.ip when the record has no private_ips.
C1_RunningOnThirdPollReturnsRecord ==
    RunningAtThirdPoll =>
        /\ DeleteRpcs = {}
        /\ ~inDestroy
        /\ polls = 3
        /\ "destroying instance" \notin {events[i] : i \in 1..Len(events)}
        /\ (pc = "done" /\ ~KeyMissing) =>
              /\ result.kind = "return" /\ result.at = "value"
              /\ bootstrapped
              /\ result.val.id = data.id
              /\ result.val.id \in Ids
              /\ result.val.name = kwargs.name
              /\ result.val.private_ips =
                    (IF "private_ips" \in DOMAIN data
                     THEN data.private_ips[1] ELSE data.template.nic.ip)

C1_Witness ==
    /\ RunningAtThirdPoll /\ pc = "done" /\ ~KeyMissing
    /\ result.kind = "return" /\ result.at = "value"
    /\ "private_ips" \notin DOMAIN data

\* C2: when the first poll shows the VM in state '7', create never returns
\* success: it polls no further, calls destroy (which, once it has resolved the
\* VM by the name just instantiated, issues exactly one vm.action 'delete' RPC
\* on that VM's id, as the last RPC of the run) and ends raising the failure.
C2_FailedOnFirstPollDestroysAndRaises ==
    (op = "create" /\ Len(reports) >= 1 /\ reports[1].state = "7") =>
        /\ result.kind # "return"
        /\ ~bootstrapped
        /\ polls = 1 /\ Len(reports) = 1
        /\ exc = "SaltCloudExecutionFailure"
        /\ pc = "done" =>
              /\ result.kind = "raise" /\ result.exc = "SaltCloudSystemExit"
              /\ result.val = "SaltCloudExecutionFailure"
              /\ inDestroy
              /\ "destroying instance" \in {events[i] : i \in 1..Len(events)}
              /\ IF DOMAIN node = {} THEN DeleteRpcs = {}
                 ELSE /\ DeleteRpcs = {Len(rpcs)}
                      /\ node.name = kwargs.name
                      /\ rpcs[Len(rpcs)].args = <<"delete", IntOf(node.id)>>

C2_Witness ==
    /\ op = "create" /\ Len(reports) = 1 /\ reports[1].state = "7"
    /\ pc = "done" /\ result.kind = "raise"
    /\ DeleteRpcs # {}

\* C3: when private_key is configured and the file does not exist, bootstrap
\* is never called and create never returns a record; once the poll has
\* produced the VM's record, create ends raising SaltCloudConfigError.
C3_MissingKeyFileIsConfigError ==
    KeyMissing =>
        /\ ~bootstrapped
        /\ pc # "c_bootstrap"
        /\ ~(result.kind = "return" /\ result.at = "value")
        /\ (pc = "done" /\ DOMAIN data # {}) =>
              /\ result.kind = "raise" /\ result.exc = "SaltCloudConfigError"
              /\ "created instance" \notin {events[i] : i \in 1..Len(events)}

C3_Witness ==
    /\ KeyMissing /\ pc = "done" /\ DOMAIN data # {}
    /\ result.kind = "raise" /\ result.exc = "SaltCloudConfigError"

\* C4: when the instantiate RPC raises, create has ended returning False: the
\* instantiate RPC is the last RPC of the run, so there is no poll, no listing
\* of the VMs, no delete RPC, no call of destroy and no bootstrap.
C4_InstantiateFailureReturnsFalse ==
    (op = "create" /\ exc = "instantiate raised") =>
        /\ pc = "done"
        /\ result = ReturnFalse
        /\ polls = 0 /\ reports = <<>>
        /\ InstantiateRpcs = {Len(rpcs)}
        /\ DeleteRpcs = {}
        /\ ~inDestroy
        /\ "destroying instance" \notin {events[i] : i \in 1..Len(events)}
        /\ ~bootstrapped

C4_Witness ==
    /\ op = "create" /\ exc = "instantiate raised"
    /\ pc = "done" /\ result = ReturnFalse
    /\ Len(rpcs) = 3

\* some element of the pool just read has the reference as its name or its id
Matched(ref) == \E n \in DOMAIN listed : ref \in {listed[n].name, listed[n].id}

\* C5: create ends with SaltCloudNotFound at the image lookup exactly when the
\* image reference is neither the name nor the id of an image of the pool, and
\* at the location lookup exactly when a location is set and is neither the
\* name nor the id of a host; in both cases no instantiate RPC is issued.  An
\* unset location resolves to None and create goes on.
C5_UnknownImageOrLocationIsNotFound ==
    op = "create" =>
        /\ (result.kind = "raise" /\ result.at = "image") =>
              /\ result.exc = "SaltCloudNotFound"
              /\ ~Matched(kwargs.image)
              /\ InstantiateRpcs = {}
        /\ pc = "c_location" =>
              \E n \in DOMAIN listed :
                  /\ kwargs.image \in {listed[n].name, listed[n].id}
                  /\ image_id = listed[n].id
        /\ (result.kind = "raise" /\ result.at = "location") =>
              /\ result.exc = "SaltCloudNotFound"
              /\ kwargs.location # NoneV /\ ~Matched(kwargs.location)
              /\ InstantiateRpcs = {}
        /\ pc = "c_instantiate" =>
              IF kwargs.location = NoneV THEN region_id = NoneV
              ELSE \E n \in DOMAIN listed :
                      /\ kwargs.location \in {listed[n].name, listed[n].id}
                      /\ region_id = listed[n].id
        /\ InstantiateRpcs # {} =>
              /\ image_id # NoneV
              /\ ~(result.kind = "raise" /\ result.exc = "SaltCloudNotFound")

C5_Witness ==
    /\ op = "create" /\ pc = "done"
    /\ result.kind = "raise" /\ result.exc = "SaltCloudNotFound"
    /\ result.at = "image" /\ DOMAIN listed # {}
    /\ InstantiateRpcs = {}

(***************************************************************************)
(* Properties of the other entry points (checked under Spec)               *)
(***************************************************************************)
\* C6: destroy, given a name present in the VM pool and a call context other
\* than 'function', issues exactly one vm.action 'delete' RPC, as the last RPC
\* of the run after listings only, whose id argument is the id of the record
\* resolved for that name, and returns the record whose 'deleted', 'node_id'
\* and 'error_code' are the three elements of the provider's response.
C6_DestroyDeletesResolvedVm ==
    (op = "destroy" /\ call # "function" /\ pc = "done" /\ DOMAIN node # {}) =>
        /\ node.name = kwargs.name
        /\ DeleteRpcs = {Len(rpcs)}
        /\ rpcs[Len(rpcs)].args = <<"delete", IntOf(node.id)>>
        /\ \A i \in 1..(Len(rpcs) - 1) : rpcs[i].method = "one.vmpool.info"
        /\ result.kind = "return" /\ result.at = "value"
        /\ result.val.action = "vm.delete"
        /\ result.val.deleted = response[1]
        /\ result.val.node_id = response[2]
        /\ result.val.error_code = response[3]

C6_Witness ==
    /\ op = "destroy" /\ call = "action" /\ pc = "done"
    /\ DOMAIN node # {} /\ node.id = "7"
    /\ result.kind = "return" /\ result.val.deleted = TRUE
    /\ Len(rpcs) = 2

\* the invocation is made in the context opposite to the entry point's own
OppositeContext ==
    \/ op \in FunctionOnlyOps \cup NotActionOps /\ call = "action"
    \/ op \in ActionOnlyOps \cup {"destroy"} /\ call = "function"

MissingRequired ==
    /\ op \in DispatcherOps \cup HelperOps
    /\ \/ \E p \in RequiredAll(op) : ~Truthy(kwargs[p])
       \/ RequiredAny(op) # {} /\ op # "vn_add_ar"
            /\ \A p \in RequiredAny(op) : ~Truthy(kwargs[p])
       \/ op = "vn_add_ar" /\ (~Truthy(kwargs.vn_id) \/ ~Truthy(kwargs.path))
       \/ op \in HelperOps \cup VmOps /\ ~Truthy(kwargs.name)

\* C8: a dispatcher or name-to-id entry point called without a required
\* argument (get_secgroup_id without a name and vn_add_ar with only one of
\* vn_id / path included) ends raising SaltCloudSystemExit and issues no RPC.
C8_MissingArgumentRejectedWithoutRpc ==
    (MissingRequired /\ pc = "done") =>
        /\ result.kind = "raise" /\ result.exc = "SaltCloudSystemExit"
        /\ rpcs = <<>>

\* the positions in the log of the update RPCs
UpdateRpcs ==
    {i \in 1..Len(rpcs) :
        rpcs[i].method \in {"one.image.update", "one.secgroup.update",
                            "one.template.update"}}

\* C9: image_update, secgroup_update and template_update, called with every
\* required argument present, raise the usage error without any RPC when
\* update_type is neither 'replace' nor 'merge'; an update RPC carries code 0
\* under 'replace' and code 1 under 'merge', and with a readable file exactly
\* that one RPC is issued.
C9_UpdateTypeCheckedAndMapped ==
    (/\ op \in UpdateOps /\ call = "function"
     /\ Truthy(kwargs[IdParam(op)]) /\ Truthy(kwargs.path)
     /\ Truthy(kwargs.update_type)) =>
        /\ kwargs.update_type \notin {"replace", "merge"} =>
              /\ rpcs = <<>>
              /\ pc \in {"entry", "done"}
              /\ pc = "done" =>
                    /\ result.kind = "raise" /\ result.at = "update_type"
                    /\ result.exc = "SaltCloudSystemExit"
        /\ \A i \in UpdateRpcs :
              /\ kwargs.update_type = "replace" => rpcs[i].args[3] = 0
              /\ kwargs.update_type = "merge" => rpcs[i].args[3] = 1
        /\ (/\ pc = "done" /\ kwargs.update_type \in {"replace", "merge"}
            /\ kwargs.path = "/file") =>
              /\ UpdateRpcs = {1} /\ Len(rpcs) = 1
              /\ rpcs[1].method = "one." \o ActionName(op, kwargs)

C9_Witness ==
    /\ op = "secgroup_update" /\ call = "function" /\ pc = "done"
    /\ kwargs.secgroup_id = "5" /\ kwargs.path = "/file"
    /\ kwargs.update_type = "append"
    /\ result.kind = "raise" /\ result.at = "update_type"

\* C10: a mutating dispatcher whose RPC was answered with a false success flag
\* does not raise: it returns the record whose outcome flag, subject id and
\* error_code are response[0], response[1] and response[2].
C10_FalseFlagIsReturnedNotRaised ==
    (op \in MutatingOps /\ Len(response) = 3 /\ response[1] = FALSE) =>
        /\ pc = "done"
        /\ result.kind = "return" /\ result.at = "value"
        /\ result.val[FlagField(op)] = FALSE
        /\ result.val[IdField(op)] = response[2]
        /\ result.val.error_code = response[3]

C10_Witness ==
    /\ op = "vm_action" /\ pc = "done"
    /\ Len(response) = 3 /\ response[1] = FALSE /\ response[3] = 2048
    /\ result.kind = "return" /\ result.val.actioned = FALSE

\* the record a mutating dispatcher returned
ReturnedRecord == op \in MutatingOps /\ result.kind = "return" /\ result.at = "value"

\* the dispatchers whose record repeats the name they were given
NameEchoOps == {"image_clone", "secgroup_clone", "template_clone",
                "template_instantiate"}

NameOrIdOps == {"image_delete", "secgroup_delete", "template_delete",
                "vn_delete", "image_info", "secgroup_info", "vn_info"}

\* the resource kind an entry point is named after
KindOfOp(o) ==
    CASE o \in {"image_delete", "image_info"} -> "image"
      [] o \in {"secgroup_delete", "secgroup_info"} -> "secgroup"
      [] o = "template_delete" -> "template"
      [] o \in {"vn_delete", "vn_info"} -> "vn"

\* C12: a dispatcher that accepts a name in place of an id, given only a name
\* that the pool holds, lists the pool of its own resource kind and then
\* issues exactly one operation RPC, as the last RPC of the run, of that same
\* resource kind and on the resolved id (vn_delete: the virtual-network pool
\* and the virtual-network delete RPC).
C12_NameResolvedInOwnKind ==
    (/\ op \in NameOrIdOps /\ pc = "done" /\ ~OppositeContext
     /\ Truthy(kwargs.name) /\ ~Truthy(kwargs[IdParam(op)])
     /\ resolved # NoneV) =>
        /\ Len(rpcs) >= 2
        /\ \A i \in 1..(Len(rpcs) - 1) :
              rpcs[i].method = "one." \o KindOfOp(op) \o "pool.info"
        /\ rpcs[Len(rpcs)].method =
              "one." \o KindOfOp(op) \o
                  (IF op \in InfoOps THEN ".info" ELSE ".delete")
        /\ rpcs[Len(rpcs)].args = <<IntOf(resolved)>>

(***************************************************************************)
(* Properties of the name lookups (checked under Spec)                     *)
(***************************************************************************)
\* the positions in the log of the pool-listing RPCs
ListingRpcs == {i \in 1..Len(rpcs) : rpcs[i].method \in PoolInfoMethods}

\* C13: a name lookup (_get_node under show_instance and destroy,
\* _get_template under get_template_id, the get_*_id entry points) whose first
\* listing holds the name makes exactly one pool-listing RPC and never sleeps,
\* and what it resolves is the record of that listing: the get_*_id entry
\* point returns its id, show_instance returns the record of that id.
C13_FoundAtFirstListing ==
    (Len(seen) >= 1 /\ seen[1] # Absent) =>
        /\ Len(seen) = 1
        /\ Cardinality(ListingRpcs) = 1
        /\ sleeps = 0
        /\ op \in HelperOps =>
              /\ pc = "done" /\ Len(rpcs) = 1
              /\ result.kind = "return" /\ result.at = "value"
              /\ result.val = seen[1]
        /\ op \in {"show_instance", "destroy"} =>
              /\ node.id = seen[1] /\ node.name = kwargs.name
              /\ (op = "show_instance" /\ pc = "done") =>
                    /\ Len(rpcs) = 1
                    /\ result.kind = "return" /\ result.val = node

C13_Witness ==
    /\ op = "get_template_id" /\ pc = "done"
    /\ seen = <<"7">>
    /\ result.kind = "return" /\ sleeps = 0

\* the lookup ended without the name in any of its listings
NeverAppeared ==
    /\ pc = "done" /\ Len(seen) >= 1
    /\ \A i \in 1..Len(seen) : seen[i] = Absent

\* C14: a retrying lookup (_get_node under show_instance, _get_template under
\* get_template_id) for a name that never appears makes exactly 10 listing
\* attempts, pauses between attempts only (9 pauses), and then returns the
\* empty record (which show_instance returns as it is, and whose missing 'id'
\* ends get_template_id).
C14_TenAttemptsThenEmpty ==
    (op \in {"show_instance", "get_template_id"} /\ NeverAppeared) =>
        /\ Cardinality(ListingRpcs) = 10
        /\ Len(seen) = 10
        /\ sleeps = 9
        /\ op = "show_instance" =>
              result.kind = "return" /\ DOMAIN result.val = {}
        /\ op = "get_template_id" =>
              result.kind = "raise" /\ result.at = "id"

\* C15: each of the five name-to-id entry points, given a name that never
\* appears in the pool, lists the pool again with a pause between attempts
\* and, the retries exhausted, returns an empty result: no exception reaches
\* the caller.
C15_HelpersRetryThenReturnEmpty ==
    (op \in HelperOps /\ kwargs.name # NoneV /\ NeverAppeared) =>
        /\ Len(seen) > 1
        /\ sleeps >= 1
        /\ result.kind = "return"

(***************************************************************************)
(* Properties of _xml_to_dict (checked under SpecXml)                      *)
(***************************************************************************)
\* _xml_to_dict has returned
Flattened == op = "_xml_to_dict" /\ pc = "done" /\ result.kind = "return"

\* how many children up to the i-th one have the i-th child's tag name
SiblingRank(i) ==
    Cardinality({k \in 1..i : xml.children[k].tag = xml.children[i].tag})

\* the key the i-th child is to be found under: the bare lower-cased tag for
\* the first sibling of its tag name, tag+"1", tag+"2", ... for the later ones
SiblingKey(i) ==
    IF SiblingRank(i) = 1 THEN Lower(xml.children[i].tag)
    ELSE Lower(xml.children[i].tag) \o ToString(SiblingRank(i) - 1)

\* C16: for an element with K children sharing one tag name, _xml_to_dict
\* produces K distinct keys for them: the bare lower-cased tag for the first
\* sibling, then tag+"1", tag+"2", ... tag+"K-1" in sibling order.
C16_SiblingKeysNumbered ==
    Flattened =>
        \A i \in 1..Len(xml.children) : SiblingKey(i) \in DOMAIN result.val

\* the i-th child is found under its lower-cased tag: with its text when it
\* has text, with its own flattening (one entry per grandchild) when not
ChildMapped(i) ==
    LET c == xml.children[i]
        k == Lower(c.tag) IN
    /\ k \in DOMAIN result.val
    /\ IF c.text # NoneV THEN result.val[k] = c.text
       ELSE /\ result.val[k] = XmlToDict(c)
            /\ Cardinality(DOMAIN result.val[k]) = Len(c.children)

\* one entry per child, keyed by the child's lower-cased tag
StructuralMapping ==
    /\ DOMAIN result.val = {Lower(xml.children[i].tag) : i \in 1..Len(xml.children)}
    /\ Cardinality(DOMAIN result.val) = Len(xml.children)
    /\ \A i \in 1..Len(xml.children) : ChildMapped(i)

\* C17 (as stated): for an element whose children all have distinct tag
\* names, _xml_to_dict returns exactly one entry per child, keyed by the
\* child's lower-cased tag, holding the child's text or else its flattening.
C17_DistinctTagsMapStructurally ==
    (/\ Flattened
     /\ \A i, j \in 1..Len(xml.children) :
            i # j => xml.children[i].tag # xml.children[j].tag)
        => StructuralMapping

\* C17 (amended): the same, for an element whose children have tag names
\* that are distinct after lower-casing.
C17_DistinctLowerTagsMapStructurally ==
    (/\ Flattened
     /\ \A i, j \in 1..Len(xml.children) :
            i # j => Lower(xml.children[i].tag) # Lower(xml.children[j].tag))
        => StructuralMapping

C17_Witness ==
    /\ Flattened /\ Len(xml.children) = 3
    /\ xml.children[1].tag = "NIC" /\ xml.children[1].text = NoneV
    /\ Len(xml.children[1].children) = 2
    /\ xml.children[2].tag = "IP" /\ xml.children[2].text = "b"
    /\ xml.children[3].tag = "ID"
    /\ DOMAIN result.val = {"nic", "ip", "id"}

(***************************************************************************)
(* Properties of the listers (checked under Spec)                          *)
(***************************************************************************)
\* the lister entry points that return the mapping they built
MappingListers == {"avail_images", "avail_locations", "list_nodes",
                   "list_nodes_full"}

\* C18: a lister given a pool of zero elements issues exactly one pool-info
\* RPC and returns the empty mapping without raising: avail_images,
\* avail_locations and _list_nodes in both modes (list_nodes, list_nodes_full)
\* return it to the caller; _list_images, _list_security_groups, _list_vms and
\* _list_vns hand it to their get_*_id helper, where the only error is the
\* KeyError of the helper's own lookup of the name in it; _list_templates
\* hands it to _get_template, whose lookup goes on to its next attempt.
C18_EmptyPoolGivesEmptyMapping ==
    (Len(rpcs) = 1 /\ rpcs[1].method \in PoolInfoMethods /\ DOMAIN listed = {}) =>
        /\ op \in MappingListers =>
              /\ pc = "done"
              /\ rpcs[1] = ListRpc(PoolOf(op))
              /\ result.kind = "return" /\ result.at = "value"
              /\ DOMAIN result.val = {}
        /\ (op \in HelperOps /\ ~Retrying(op)) =>
              /\ pc = "done"
              /\ rpcs[1] = ListRpc(PoolOf(op))
              /\ seen = <<Absent>>
              /\ result.kind = "raise" /\ result.exc = "KeyError"
              /\ result.at = "lookup"
        /\ op = "get_template_id" =>
              /\ pc = "resolve"
              /\ rpcs[1] = ListRpc("template")
              /\ seen = <<Absent>>
              /\ result.kind = "none"

C18_Witness ==
    /\ op = "list_nodes" /\ pc = "done"
    /\ Len(rpcs) = 1 /\ DOMAIN listed = {}
    /\ result.kind = "return" /\ DOMAIN result.val = {}

(***************************************************************************)
(* Further properties of create (checked under SpecCreate)                 *)
(***************************************************************************)
\* C19: the instantiate RPC of create, of which there is at most one, carries
\* the resolved image id as an integer, the VM name, the flag False and, last,
\* the scheduler requirement naming the resolved location id when a location
\* is configured and the empty string when none is.
C19_InstantiateArguments ==
    op = "create" =>
        /\ Cardinality(InstantiateRpcs) <= 1
        /\ \A i \in InstantiateRpcs :
              /\ Len(rpcs[i].args) = 4
              /\ \/ image_id = "5" /\ rpcs[i].args[1] = 5
                 \/ image_id = "7" /\ rpcs[i].args[1] = 7
              /\ rpcs[i].args[2] = kwargs.name
              /\ rpcs[i].args[3] = FALSE
              /\ IF kwargs.location = NoneV
                 THEN region_id = NoneV /\ rpcs[i].args[4] = ""
                 ELSE /\ region_id \in Ids
                      /\ rpcs[i].args[4] =
                            "SCHED_REQUIREMENTS=\"ID=" \o region_id \o "\""

C19_Witness ==
    /\ op = "create" /\ InstantiateRpcs # {}
    /\ kwargs.image = "n1" /\ image_id = "7"
    /\ kwargs.location = "n2" /\ region_id = "5"
    /\ rpcs[3].args = <<7, "n1", FALSE, "SCHED_REQUIREMENTS=\"ID=5\"">>

\* create returned its record
CreateSucceeded == op = "create" /\ result.kind = "return" /\ result.at = "value"

\* C20: on success the record create returns carries the id of the polled VM
\* record, the image reference and the name of the VM specification, the
\* memory size and the state of the polled record, the private address that
\* was handed to bootstrap as ssh_host, and an empty public-address list; the
\* polled record is the one the last poll showed, for the VM's name.
C20_CreateResultFields ==
    CreateSucceeded =>
        /\ bootstrapped /\ pc = "done"
        /\ data.name = kwargs.name
        /\ reports[Len(reports)] = [state |-> data.state, lcm_state |-> "3"]
        /\ DOMAIN result.val = {"id", "image", "name", "size", "state",
                                "private_ips", "public_ips"}
        /\ result.val.id = data.id
        /\ result.val.image = kwargs.image
        /\ result.val.name = kwargs.name
        /\ result.val.size = data.template.memory
        /\ result.val.state = data.state
        /\ result.val.private_ips = ssh_host
        /\ ssh_host \in {"192.168.0.9", "10.0.0.5"}
        /\ result.val.public_ips = <<>>

C20_Witness ==
    /\ CreateSucceeded /\ pc = "done"
    /\ kwargs.image = "n1" /\ result.val.image = "n1"
    /\ result.val.id = "5" /\ result.val.size = "512"
    /\ "private_ips" \in DOMAIN data
    /\ result.val.private_ips = "192.168.0.9"

\* the poll of create ended in a timeout or in a detected failure
PollFailed ==
    op = "create" /\ exc \in {"SaltCloudExecutionTimeout", "SaltCloudExecutionFailure"}

\* C21: once the poll of create has timed out or detected a failure, the run
\* ends raising SaltCloudSystemExit with the message of that poll error, and
\* never with an error of the compensating destroy: whether destroy deleted
\* the VM, its delete RPC raised, or it could not resolve the VM and failed on
\* the empty record.
C21_PollErrorSurvivesDestroy ==
    (PollFailed /\ pc = "done") =>
        /\ inDestroy
        /\ result.kind = "raise"
        /\ result.exc = "SaltCloudSystemExit"
        /\ result.at = "poll"
        /\ result.val = Str(exc)

C21_Witness ==
    /\ PollFailed /\ pc = "done" /\ exc = "SaltCloudExecutionTimeout"
    /\ inDestroy /\ DOMAIN node = {} /\ DeleteRpcs = {}
    /\ result.exc = "SaltCloudSystemExit"

\* C22: every record shown to a poll of create is classified by
\* __query_node_data in this order: the empty record and state '7' are a
\* failure (also with lcm_state '3'), which ends the poll with
\* SaltCloudExecutionFailure; otherwise lcm_state '3' is ready and the poll
\* returns that record; anything else is 'not yet', which neither fails nor
\* returns. So the record a poll returned is never one in state '7'.
C22_FailedStateCheckedBeforeRunning ==
    /\ \A i \in 1..Len(reports) :
          LET r == reports[i]
              failed == r.state \in {"", "7"}
              ready == ~failed /\ r.lcm_state = "3"
          IN  /\ failed => (i = Len(reports) /\ exc = "SaltCloudExecutionFailure"
                            /\ DOMAIN data = {})
              /\ ready => (i = Len(reports) /\ exc = NoneV
                           /\ DOMAIN data # {})
              /\ (~failed /\ ~ready) =>
                    /\ DOMAIN data = {} \/ i < Len(reports)
                    /\ exc # "SaltCloudExecutionFailure" \/ i < Len(reports)
                    /\ (i < PollLimit /\ i = Len(reports)) => exc = NoneV
    /\ DOMAIN data # {} =>
          /\ data.state # "7" /\ data.lcm_state = "3"
          /\ Report(data) = reports[Len(reports)]

C22_Witness ==
    /\ op = "create" /\ Len(reports) = 2
    /\ reports[1] = [state |-> "3", lcm_state |-> "0"]
    /\ reports[2] = [state |-> "7", lcm_state |-> "3"]
    /\ exc = "SaltCloudExecutionFailure" /\ pc = "done"

\* the template.delete RPCs of the run
TemplateDeleteRpcs == {i \in 1..Len(rpcs) : rpcs[i].method = "one.template.delete"}

\* template_delete was given both a name and a template_id
NameAndId ==
    /\ op = "template_delete" /\ pc # "idle" /\ result.at # "call"
    /\ Truthy(kwargs.name) /\ Truthy(kwargs.template_id)

\* C23: template_delete given a name and a template_id issues its delete RPC
\* only after a listing showed the name under that very id (the last RPC
\* before it is that listing); when the listing shows the name under another
\* id the run ends raising SaltCloudException, and when the name is in no
\* listing it ends raising KeyError, in both cases without a delete RPC.
C23_CollisionCheckGuardsDelete ==
    NameAndId =>
        /\ TemplateDeleteRpcs # {} =>
              /\ TemplateDeleteRpcs = {Len(rpcs)}
              /\ Len(seen) >= 1 /\ seen[Len(seen)] = kwargs.template_id
              /\ Len(rpcs) = Len(seen) + 1
              /\ rpcs[Len(rpcs)].args = <<IntOf(kwargs.template_id)>>
        /\ (Len(seen) >= 1 /\ seen[Len(seen)] \notin {Absent, kwargs.template_id}) =>
              /\ pc = "done"
              /\ result.kind = "raise" /\ result.exc = "SaltCloudException"
              /\ TemplateDeleteRpcs = {}
        /\ NeverAppeared =>
              /\ result.kind = "raise" /\ result.exc = "KeyError"
              /\ TemplateDeleteRpcs = {}

C23_Witness ==
    /\ NameAndId /\ pc = "done"
    /\ Len(seen) = 2 /\ seen[1] = Absent /\ seen[2] = "7" /\ kwargs.template_id = "5"
    /\ result.exc = "SaltCloudException" /\ TemplateDeleteRpcs = {}

RECURSIVE KeysFold(_, _, _, _)

\* the keys `for item in xml` stores its items under, in the order of the items
KeysFold(items, i, dicts, keys) ==
    IF i > Len(items) THEN keys
    ELSE LET key == FreeKey(Lower(items[i].tag), 1, dicts)
         IN KeysFold(items, i + 1, (key :> TRUE) @@ dicts, Append(keys, key))

\* the key the i-th child was stored under
KeyOf(i) == KeysFold(xml.children, 1, EmptyDict, <<>>)[i]

\* the i-th child's value: its text, or its own flattening when it has none
ChildValue(i) ==
    LET c == xml.children[i] IN
    IF c.text # NoneV THEN c.text ELSE XmlToDict(c)

\* two of the children collide on a key: by the same lower-cased tag, or by
\* the lower-cased tag of one being the suffixed key of a repeated other
SuffixCollision ==
    \E i, j, k \in 1..Len(xml.children) :
        /\ i < j /\ k # i /\ k # j
        /\ Lower(xml.children[i].tag) = Lower(xml.children[j].tag)
        /\ Lower(xml.children[k].tag) = Lower(xml.children[i].tag) \o "1"

\* C24: for every element, with any mix of repeated and suffix-colliding
\* child tags, _xml_to_dict returns a mapping with exactly as many keys as the
\* element has children, and every child has a key of its own that holds its
\* value: nothing is overwritten or lost.
C24_OneKeyPerChild ==
    Flattened =>
        /\ Cardinality(DOMAIN result.val) = Len(xml.children)
        /\ \A i, j \in 1..Len(xml.children) : i # j => KeyOf(i) # KeyOf(j)
        /\ \A i \in 1..Len(xml.children) :
              /\ KeyOf(i) \in DOMAIN result.val
              /\ result.val[KeyOf(i)] = ChildValue(i)

C24_Witness ==
    /\ Flattened /\ Len(xml.children) = 3
    /\ xml.children[1].tag = "NIC" /\ xml.children[2].tag = "nic"
    /\ xml.children[3].tag = "NIC1"
    /\ SuffixCollision
    /\ DOMAIN result.val = {"nic", "nic1", "nic11"}

\* the entry points whose lookup is the retry loop of _get_node or of
\* _get_template, with a name to look up
RetryLoopRuns ==
    /\ op \in {"show_instance", "destroy"} \cup {o \in ApiOps : Helper(o) = "get_template_id"}
    /\ Len(seen) >= 1

\* the loop is over: the lookup has returned to its caller
LoopOver == pc \notin {"node_lookup", "resolve"}

\* C25: in the retry loops of _get_node and _get_template every listing is
\* one listing RPC and only the last one can show the name. A name first
\* shown by the k-th listing is returned from that listing (its record for
\* _get_node, its id for _get_template) after k listing RPCs and k-1 sleeps.
\* The loop makes at most Attempts+1 listings, so it ends; while the name
\* has not appeared there are as many sleeps as listings (a sleep follows
\* every failed attempt, the last one too), and the empty record is returned
\* after Attempts+1 listings and as many sleeps.
C25_FoundAtKthListing ==
    RetryLoopRuns =>
        LET k == Len(seen) IN
        /\ k <= Attempts + 1
        /\ Cardinality(ListingRpcs) = k
        /\ \A i \in 1..(k - 1) : seen[i] = Absent
        /\ seen[k] # Absent =>
              /\ sleeps = k - 1
              /\ LoopOver
              /\ op \in {"show_instance", "destroy"} =>
                    node.id = seen[k] /\ node.name = kwargs.name
              /\ op = "get_template_id" =>
                    result.kind = "return" /\ result.val = seen[k]
        /\ seen[k] = Absent =>
              /\ sleeps = k
              /\ attempts = Attempts - k \/ LoopOver
              /\ LoopOver =>
                    /\ k = Attempts + 1
                    /\ op \in {"show_instance", "destroy"} => DOMAIN node = {}
                    /\ op = "show_instance" /\ pc = "done" =>
                          result.kind = "return" /\ DOMAIN result.val = {}

C25_Witness ==
    /\ RetryLoopRuns /\ op = "show_instance" /\ pc = "done"
    /\ Len(seen) = Attempts + 1 /\ seen[Attempts + 1] = "7"
    /\ sleeps = Attempts
    /\ result.kind = "return" /\ result.val.id = "7"

\* C26: create does not look at what the instantiate RPC answered: whenever
\* the call returned an answer, with a true or a false success flag, create
\* is on its way to the readiness poll with nothing returned, and a create
\* that issued the call has returned False only when the call raised.
C26_InstantiateAnswerIgnored ==
    op = "create" =>
        /\ response # NoResponse =>
              /\ InstantiateRpcs = {Len(rpcs)}
              /\ pc = "c_poll" /\ result = NoResult
              /\ exc = NoneV
        /\ polls >= 1 => (InstantiateRpcs # {} /\ exc # "instantiate raised")
        /\ (result = ReturnFalse /\ InstantiateRpcs # {}) =>
              (exc = "instantiate raised" /\ response = NoResponse /\ polls = 0)

C26_Witness ==
    /\ op = "create" /\ pc = "c_poll"
    /\ response = <<FALSE, 42, 2048>>
    /\ InstantiateRpcs = {Len(rpcs)} /\ result = NoResult

\* the events of the run so far
Emitted == {events[i] : i \in 1..Len(events)}

\* create has ended without a record: it returned False or raised
CreateFailed ==
    /\ op = "create" /\ pc = "done"
    /\ result = ReturnFalse \/ result.kind = "raise"

\* the step issues the instantiate RPC
IssuesInstantiate ==
    Len(rpcs') = Len(rpcs) + 1 /\ rpcs'[Len(rpcs')].method = "one.template.instantiate"

\* what holds in every state of a run of create, for C27
CreateEventsInOrder ==
    op = "create" =>
        /\ Cardinality(InstantiateRpcs) <= 1
        /\ InstantiateRpcs # {} =>
              /\ Len(events) >= 2
              /\ events[1] = "starting create" /\ events[2] = "requesting instance"
        /\ "created instance" \in Emitted =>
              /\ events[Len(events)] = "created instance"
              /\ Cardinality(InstantiateRpcs) = 1
              /\ DOMAIN data # {} /\ exc = NoneV /\ ~inDestroy
              /\ bootstrapped
              /\ CreateSucceeded
        /\ CreateFailed => "created instance" \notin Emitted
        /\ (KeyMissing \/ exc # NoneV \/ kwargs.profile = "unconfigured"
            \/ (pc = "done" /\ InstantiateRpcs = {})) =>
              "created instance" \notin Emitted

\* C27: a run of create issues at most one instantiate RPC, and at the step
\* that issues it the events so far are exactly 'starting create' then
\* 'requesting instance'; 'created instance' is emitted only as the last
\* event of a run whose poll returned a record and whose bootstrap returned,
\* and never on a failure path (profile not configured, image or location not
\* found, instantiate raised, poll failed or timed out, key file missing).
C27_CreateEventOrder ==
    /\ []CreateEventsInOrder
    /\ [][IssuesInstantiate =>
            /\ events = <<"starting create", "requesting instance">>
            /\ events' = events
            /\ InstantiateRpcs = {}]_vars

C27_Witness ==
    /\ op = "create" /\ pc = "done" /\ CreateSucceeded
    /\ events = <<"starting create", "requesting instance", "created instance">>
    /\ Cardinality(InstantiateRpcs) = 1 /\ polls = 2

\* the step issues the vm.action 'delete' RPC
IssuesDelete ==
    /\ Len(rpcs') = Len(rpcs) + 1
    /\ rpcs'[Len(rpcs')].method = "one.vm.action"
    /\ rpcs'[Len(rpcs')].args[1] = "delete"

\* what holds in every state of a run of destroy, for C28
DestroyEventsInOrder ==
    (op = "destroy" /\ call # "function") =>
        /\ rpcs # <<>> => (Len(events) >= 1 /\ events[1] = "destroying instance")
        /\ DeleteRpcs # {} =>
              /\ events = <<"destroying instance", "destroyed instance">>
              /\ Len(response) = 3
        /\ "destroyed instance" \in Emitted => DeleteRpcs = {Len(rpcs)}
        /\ (pc = "done" /\ DOMAIN node = {}) =>
              /\ NeverAppeared
              /\ result.kind = "raise" /\ result.exc = "KeyError"
              /\ DeleteRpcs = {}
              /\ events = <<"destroying instance">>

\* C28: destroy emits 'destroying instance' before any RPC; at the step that
\* issues the delete RPC that event is the only one so far and 'destroyed
\* instance' follows the RPC's return, with a true or a false success flag in
\* the answer; when the name is in none of the listings destroy ends raising
\* on the empty record with 'destroying instance' emitted, no delete RPC and
\* no 'destroyed instance'.
C28_DestroyEventOrder ==
    /\ []DestroyEventsInOrder
    /\ [][(op = "destroy" /\ IssuesDelete) =>
            /\ events = <<"destroying instance">>
            /\ DeleteRpcs = {}
            /\ events' = <<"destroying instance", "destroyed instance">>]_vars

C28_Witness ==
    /\ op = "destroy" /\ call = NoneV /\ pc = "done"
    /\ DeleteRpcs = {Len(rpcs)}
    /\ response = <<FALSE, 42, 2048>>
    /\ events = <<"destroying instance", "destroyed instance">>
    /\ result.kind = "return" /\ result.val.deleted = FALSE

\* create has raised the error of its private_key check
KeyCheckFailed ==
    /\ op = "create"
    /\ result.kind = "raise" /\ result.exc = "SaltCloudConfigError"

\* C29: a run of create that failed on the missing private key file has
\* called no destroy and issued no delete RPC, before or after the failure:
\* its RPCs are the listings and the one instantiate, and the run is over.
\* The compensating destroy belongs to the runs whose poll failed or timed
\* out, and to those only.
C29_KeyFailureDoesNotRollBack ==
    /\ KeyCheckFailed =>
          /\ pc = "done"
          /\ ~inDestroy
          /\ DeleteRpcs = {}
          /\ "destroying instance" \notin Emitted
          /\ Cardinality(InstantiateRpcs) = 1
          /\ \A i \in 1..Len(rpcs) : i \in InstantiateRpcs \cup ListingRpcs
          /\ DOMAIN data # {} /\ KeyMissing
    /\ (op = "create" /\ (inDestroy \/ DeleteRpcs # {})) => PollFailed

C29_Witness ==
    /\ KeyCheckFailed /\ pc = "done"
    /\ kwargs.private_key = "/nofile"
    /\ Len(reports) = 3 /\ DeleteRpcs = {} /\ ~inDestroy
    /\ events = <<"starting create", "requesting instance">>

\* the function-style dispatchers: the image_*, secgroup_*, template_* and
\* vn_* ones and vm_allocate
FunctionStyleOps == DispatcherOps \ VmOps

\* C30: every function-style dispatcher invoked with call=None ends raising
\* the usage error of its call check and issues no RPC.
C30_CallNoneRejectedByAll ==
    (op \in FunctionStyleOps /\ call = NoneV) =>
        /\ rpcs = <<>>
        /\ pc \in {"entry", "done"}
        /\ pc = "done" =>
              /\ result.kind = "raise" /\ result.at = "call"
              /\ result.exc = "SaltCloudSystemExit"

====
